---------------------------- MODULE Spec2Model ----------------------------
(***************************************************************************)
(* A model of the FFmpeg watermark queue (backend/app/ffmpeg_queue.py):    *)
(* the in-memory job registry, the shared FIFO work queue, the resizable   *)
(* pool of worker threads, the per-job execution state machine of          *)
(* _run_job, the settings update handler with its request validation, the  *)
(* job listing of list_jobs, and the command builder of watermark.py.      *)
(*                                                                         *)
(* The roster self._workers is a list of Thread objects.  Threads have no  *)
(* identity the program reads (only len() and is_alive() are used), so the *)
(* roster is kept as a bag of thread states; a thread that has exited and  *)
(* was pruned from the roster is unreachable and is not kept.              *)
(*                                                                         *)
(* Threads.  The request handlers (create_job, update_settings) run on the *)
(* single event-loop thread, so each is one action.  Every worker thread   *)
(* has a program counter; a worker step is one access to shared state      *)
(* (queue, job fields), so that readers and other workers interleave       *)
(* between the statements of _run_job as they do in the program.           *)
(***************************************************************************)
EXTENDS Integers, Sequences, FiniteSets, Bags, TLC

VARIABLES
    jobs,               \* FFmpegQueue._jobs: job id (1..Len) -> Job
    queue,              \* FFmpegQueue._queue: FIFO of job ids and "__stop__"
    workers,            \* FFmpegQueue._workers: the roster, a bag of threads,
                        \* each its pc, the job in hand and the loop index
    max_parallel_jobs,  \* FFmpegQueue._max_parallel_jobs
    settings,           \* config.settings (the fields the queue reads/writes)
    now,                \* the value time.time() returns
    patch,              \* history: the PATCH /settings requests so far
    dequeues,           \* history: job id -> times a worker took it off the queue
    popen_calls,        \* history: job id -> input indexes handed to Popen
    listed,             \* what the last call of list_jobs returned: the Job
                        \* references, and the jobs as they were on return
    built,              \* what the last call of build_filter_and_inputs returned
    stop_event,         \* FFmpegQueue._stop_event: set or not
    creating            \* the call of create_job under way: the statement it
                        \* is at and the Job it has built

vars == <<jobs, queue, workers, max_parallel_jobs, settings, now,
          patch, dequeues, popen_calls, listed, built, stop_event, creating>>

----------------------------------------------------------------------------
(* Bounds of the model *)

MaxJobs == 2
MaxInputs == 2
MaxPool == 3
MaxUpdates == 2
MaxClock == 1

----------------------------------------------------------------------------
(* models.py *)

QUEUED == "queued"
RUNNING == "running"
COMPLETED == "completed"
FAILED == "failed"
CANCELLED == "cancelled"

JobStatus == {QUEUED, RUNNING, COMPLETED, FAILED, CANCELLED}

Terminal == {COMPLETED, FAILED, CANCELLED}

TEXT == "text"
IMAGE == "image"

\* Optional[float] timestamps: None is -1, a clock reading is >= 0
None == -1

\* the sentinel "__stop__" a worker exits on; job ids are 1, 2, ...
STOP == 0

\* Job.append_log: the entry is appended at the end of the job's log.  An
\* entry is the message kind and the input (1-based) it is about, 0 for a
\* message about the whole job.
LogEntry(msg, input) == [msg |-> msg, input |-> input]

append_log(job, msg, input) ==
    [job EXCEPT !.log = Append(@, LogEntry(msg, input))]

\* progress is the float index / total_files, kept as the exact fraction
Fraction(num, den) == <<num, den>>

FracEq(p, q) == p[1] * q[2] = q[1] * p[2]

FracLeq(p, q) == p[1] * q[2] <= q[1] * p[2]


----------------------------------------------------------------------------
(* config.py: the settings object at start-up *)

DefaultOutputFormat == "mp4"

DefaultParallelJobs == 2

DefaultFfmpegBinary == "ffmpeg"

\* Settings(): the defaults, with the pool size and the GPU flag as the
\* environment (FFMPEGSHUIYIN_MAX_PARALLEL_JOBS, FFMPEGSHUIYIN_ALLOW_GPU)
\* gives them
InitialSettings(p, gpu) ==
    [max_parallel_jobs |-> p,
     default_output_format |-> DefaultOutputFormat,
     ffmpeg_binary |-> DefaultFfmpegBinary,
     allow_gpu |-> gpu]

----------------------------------------------------------------------------
(* Worker threads *)

\* threading.Thread(target=self._worker).start(): a thread at the top of
\* its loop, holding no job
NewThread == [pc |-> "idle", job |-> 0, index |-> 0]

\* Thread.is_alive(): the thread function has not returned
is_alive(thread) == thread.pc # "exited"

\* a spawning loop that runs once too often
SpawnThreadsExtra(roster, n) ==
    roster (+) [r \in {NewThread} |-> n + 1]

\* the spawning loop of _start_workers and of _resize_workers: n new
\* threads are started and appended to the roster
SpawnThreads(roster, n) ==
    IF n <= 0 THEN roster ELSE roster (+) [r \in {NewThread} |-> n]

\* n sentinels are put at the tail of the queue
RECURSIVE PutStops(_, _)
PutStops(q, n) == IF n <= 0 THEN q ELSE PutStops(Append(q, STOP), n - 1)

\* [w for w in self._workers if w.is_alive()]
Prune(roster) ==
    [r \in {x \in BagToSet(roster) : is_alive(x)} |-> roster[r]]

\* len(roster) restricted to the threads that satisfy keep
RECURSIVE CountIn(_, _)
CountIn(roster, states) ==
    IF states = {} THEN 0
    ELSE LET r == CHOOSE x \in states : TRUE
         IN roster[r] + CountIn(roster, states \ {r})

\* the threads of the roster that are alive, and their number
LiveStates == {r \in BagToSet(workers) : is_alive(r)}

LiveWorkers == CountIn(workers, LiveStates)

\* a thread in state r of the roster moves to state r2
MoveThread(r, r2) ==
    workers' = (workers (-) SetToBag({r})) (+) SetToBag({r2})

----------------------------------------------------------------------------
(* FFmpegQueue.__init__ *)

\* no PATCH /settings request yet
NoPatch == [n |-> 0, payload |-> <<>>, status |-> 0, live |-> 0, settled |-> TRUE]

\* list_jobs was not called yet
NoListing == [refs |-> <<>>, values |-> <<>>]

\* build_filter_and_inputs was not called yet
NotBuilt == [raised |-> FALSE, extra_inputs |-> <<>>, filter_complex |-> <<>>]

\* no call of create_job is under way
NoCreate == [pc |-> "none", id |-> 0, job |-> <<>>]

InitWith(pools, gpus) ==
    /\ jobs = <<>>
    /\ queue = <<>>
    /\ \E p \in pools, gpu \in gpus :
         /\ max_parallel_jobs = p
         /\ settings = InitialSettings(p, gpu)
         /\ workers = SpawnThreads(EmptyBag, p)
    /\ now = 0
    /\ patch = NoPatch
    /\ dequeues = <<>>
    /\ popen_calls = <<>>
    /\ listed = NoListing
    /\ built = NotBuilt
    /\ stop_event = FALSE
    /\ creating = NoCreate

----------------------------------------------------------------------------
(* FFmpegQueue.create_job *)

Devices == {"cpu", "intel", "nvidia"}

\* a resolution that stores whatever device was asked for
ResolveDeviceAsGiven(target_device, allow_gpu) == target_device

\* lines 43-46: an unknown device, or a GPU device while GPUs are not
\* allowed, becomes "cpu"
ResolveDevice(target_device, allow_gpu) ==
    IF target_device \notin Devices THEN "cpu"
    ELSE IF target_device # "cpu" /\ ~allow_gpu THEN "cpu"
    ELSE target_device

\* metadata.setdefault("ffmpeg_binary", value)
SetDefaultBinary(metadata, value) ==
    IF "ffmpeg_binary" \in DOMAIN metadata THEN metadata
    ELSE [k \in DOMAIN metadata \cup {"ffmpeg_binary"} |->
            IF k = "ffmpeg_binary" THEN value ELSE metadata[k]]

\* the Job dataclass as create_job builds it.  output_format "" stands for
\* both None and the empty string: `output_format or default` treats them alike.
NewJob(n, watermark, output_format, target_device, metadata) ==
    [input_files |-> [i \in 1..n |-> i],
     watermark |-> watermark,
     output_format |-> IF output_format # "" THEN output_format
                       ELSE settings.default_output_format,
     target_device |-> ResolveDevice(target_device, settings.allow_gpu),
     status |-> QUEUED,
     created_at |-> now,
     started_at |-> None,
     finished_at |-> None,
     progress |-> Fraction(0, 1),
     log |-> <<>>,
     metadata |-> SetDefaultBinary(metadata, settings.ffmpeg_binary)]

\* a submission that enqueues the id twice
PutJobTwice(q, id) == Append(Append(q, id), id)

\* a put that would place the id at the head of the queue
PutJobFront(q, id) == <<id>> \o q

\* self._queue.put(job.id)
PutJob(q, id) == Append(q, id)

\* lines 69-73: store under the lock, log, enqueue
create_job(n, watermark, output_format, target_device, metadata) ==
    /\ LET id == Len(jobs) + 1
           job == NewJob(n, watermark, output_format, target_device, metadata)
       IN /\ jobs' = Append(jobs, append_log(job, "Job created and queued", 0))
          /\ queue' = PutJob(queue, id)
          /\ dequeues' = Append(dequeues, 0)
          /\ popen_calls' = Append(popen_calls, <<>>)
    /\ UNCHANGED <<workers, max_parallel_jobs, settings, now, patch,
                   listed, built, stop_event, creating>>

\* the three statements in an order that enqueues first
CreateOrderPutFirst == <<"put", "store", "log">>

\* lines 69-72 in program order: the registry entry under the lock, the log
\* entry, the put on the queue
CreateOrder == <<"store", "log", "put">>

\* the statement after statement pc, "none" after the last
StatementAfter(pc) ==
    LET i == CHOOSE i \in DOMAIN CreateOrder : CreateOrder[i] = pc
    IN IF i = Len(CreateOrder) THEN "none" ELSE CreateOrder[i + 1]

\* lines 43-68: a call of create_job has built its Job object and is about
\* to run the first of the three statements
CreateBegin(n, watermark, output_format, target_device, metadata) ==
    /\ creating.pc = "none"
    /\ creating' = [pc |-> CreateOrder[1],
                    id |-> Len(jobs) + 1,
                    job |-> NewJob(n, watermark, output_format, target_device,
                                   metadata)]
    /\ UNCHANGED <<jobs, queue, workers, max_parallel_jobs, settings, now,
                   patch, dequeues, popen_calls, listed, built, stop_event>>

\* lines 69-70: self._jobs[job.id] = job
CreateStore ==
    /\ creating.pc = "store"
    /\ jobs' = Append(jobs, creating.job)
    /\ dequeues' = Append(dequeues, 0)
    /\ popen_calls' = Append(popen_calls, <<>>)
    /\ creating' = [creating EXCEPT !.pc = StatementAfter("store")]
    /\ UNCHANGED <<queue, workers, max_parallel_jobs, settings, now, patch,
                   listed, built, stop_event>>

\* line 71: job.append_log("Job created and queued"), on the object the
\* registry holds once it is stored
CreateLog ==
    /\ creating.pc = "log"
    /\ IF creating.id \in 1..Len(jobs)
          THEN /\ jobs' = [jobs EXCEPT ![creating.id] =
                              append_log(@, "Job created and queued", 0)]
               /\ creating' = [creating EXCEPT !.pc = StatementAfter("log")]
       ELSE /\ creating' = [creating EXCEPT
                                !.pc = StatementAfter("log"),
                                !.job = append_log(@, "Job created and queued", 0)]
            /\ UNCHANGED jobs
    /\ UNCHANGED <<queue, workers, max_parallel_jobs, settings, now, patch,
                   dequeues, popen_calls, listed, built, stop_event>>

\* line 72: self._queue.put(job.id)
CreatePut ==
    /\ creating.pc = "put"
    /\ queue' = PutJob(queue, creating.id)
    /\ creating' = [creating EXCEPT !.pc = StatementAfter("put")]
    /\ UNCHANGED <<jobs, workers, max_parallel_jobs, settings, now, patch,
                   dequeues, popen_calls, listed, built, stop_event>>

----------------------------------------------------------------------------
(* FFmpegQueue._worker *)

\* the thread t of the roster goes on at pc with this job and loop index
SetThread(t, pc, job, index) ==
    MoveThread(t, [pc |-> pc, job |-> job, index |-> index])

\* lines 93-104: with the stop event clear, take the head of the queue;
\* leave the loop on the sentinel, go back to waiting when the id is not in
\* the registry, else enter _run_job
WorkerGet(t) ==
    /\ t.pc = "idle"
    /\ ~stop_event
    /\ queue # <<>>
    /\ LET job_id == Head(queue)
       IN /\ queue' = Tail(queue)
          /\ IF job_id = STOP
                THEN /\ SetThread(t, "exiting", 0, 0)
                     /\ UNCHANGED dequeues
             ELSE IF job_id \notin 1..Len(jobs)
                THEN UNCHANGED <<workers, dequeues>>
             ELSE /\ SetThread(t, "run_job", job_id, 0)
                  /\ dequeues' = [dequeues EXCEPT ![job_id] = @ + 1]
    /\ UNCHANGED <<jobs, max_parallel_jobs, settings, now, patch,
                   popen_calls, listed, built, stop_event, creating>>

\* the thread function returns after `break`: the thread is no longer alive
WorkerExit(t) ==
    /\ t.pc = "exiting"
    /\ SetThread(t, "exited", 0, 0)
    /\ UNCHANGED <<jobs, queue, max_parallel_jobs, settings, now,
                   patch, dequeues, popen_calls, listed, built,
                   stop_event, creating>>

----------------------------------------------------------------------------
(* FFmpegQueue._run_job *)

\* a guard that skips completed jobs only
SkipStatusesCompletedOnly == {COMPLETED}

\* the statuses for which _run_job returns at once (line 157)
SkipStatuses == {CANCELLED, COMPLETED}

\* lines 157-159: the guard, then status = RUNNING
RunJobBegin(t) ==
    /\ t.pc = "run_job"
    /\ LET j == t.job
       IN IF jobs[j].status \in SkipStatuses
             THEN /\ SetThread(t, "idle", 0, 0)
                  /\ UNCHANGED jobs
          ELSE /\ jobs' = [jobs EXCEPT ![j].status = RUNNING]
               /\ SetThread(t, "started", j, 0)
    /\ UNCHANGED <<queue, max_parallel_jobs, settings, now, patch,
                   dequeues, popen_calls, listed, built,
                   stop_event, creating>>

\* lines 160-164: started_at, the start message, and the loop is entered
\* (a job without inputs goes straight to completion)
RunJobStamp(t) ==
    /\ t.pc = "started"
    /\ LET j == t.job
       IN /\ jobs' = [jobs EXCEPT ![j] =
                        append_log([@ EXCEPT !.started_at = now], "Starting job", 0)]
          /\ IF jobs[j].input_files = <<>>
                THEN SetThread(t, "complete", j, 0)
             ELSE SetThread(t, "build", j, 1)
    /\ UNCHANGED <<queue, max_parallel_jobs, settings, now, patch,
                   dequeues, popen_calls, listed, built,
                   stop_event, creating>>

\* watermark.py build_filter_and_inputs, lines 51-53: the one error of the
\* command builder is an image watermark without an image path
BuildRaises(job) ==
    job.watermark.type = IMAGE /\ job.watermark.image_path = ""

\* a failure that puts the job back in the queued state
FailStatusRequeued == QUEUED

\* line 175, the first statement of the except clause
FailStatus == FAILED

\* lines 166-171, and 174-175 when the builder raises: build the command and
\* log it; `mkdir` is the other statement that can raise here (mkdir_ok)
RunJobBuild(t, mkdir_ok) ==
    /\ t.pc = "build"
    /\ LET j == t.job
           i == t.index
       IN IF ~mkdir_ok \/ BuildRaises(jobs[j])
             THEN /\ jobs' = [jobs EXCEPT ![j].status = FailStatus]
                  /\ SetThread(t, "failed", j, i)
          ELSE /\ jobs' = [jobs EXCEPT ![j] =
                             append_log(append_log(@, "Processing", i), "Command", i)]
               /\ SetThread(t, "execute", j, i)
    /\ UNCHANGED <<queue, max_parallel_jobs, settings, now, patch,
                   dequeues, popen_calls, listed, built,
                   stop_event, creating>>

\* the output lines of the transcoder, each appended to the log (line 194)
RECURSIVE LogOutput(_, _, _)
LogOutput(job, i, lines) ==
    IF lines = 0 THEN job
    ELSE LogOutput(append_log(job, "output", i), i, lines - 1)

\* a run that starts the transcoder again when it exits with a non-zero code
RunJobExecuteRetry(t, popen_ok, lines, return_code) ==
    /\ t.pc = "execute"
    /\ LET j == t.job
           i == t.index
       IN /\ popen_calls' = [popen_calls EXCEPT ![j] = Append(@, i)]
          /\ IF ~popen_ok
                THEN /\ jobs' = [jobs EXCEPT ![j].status = FailStatus]
                     /\ SetThread(t, "failed", j, i)
             ELSE IF return_code # 0
                THEN /\ jobs' = [jobs EXCEPT ![j] = LogOutput(@, i, lines)]
                     /\ SetThread(t, "execute", j, i)
             ELSE /\ jobs' = [jobs EXCEPT ![j] =
                                append_log(LogOutput(@, i, lines), "Completed", i)]
                  /\ SetThread(t, "progress", j, i)
    /\ UNCHANGED <<queue, max_parallel_jobs, settings, now, patch,
                   dequeues, listed, built, stop_event, creating>>

\* line 172-175, _execute_ffmpeg: the process is started (popen_ok), its
\* output is logged line by line, and its exit code decides: 0 logs
\* "Completed", anything else raises and the except clause sets FAILED
RunJobExecute(t, popen_ok, lines, return_code) ==
    /\ t.pc = "execute"
    /\ LET j == t.job
           i == t.index
       IN /\ popen_calls' = [popen_calls EXCEPT ![j] = Append(@, i)]
          /\ IF ~popen_ok
                THEN /\ jobs' = [jobs EXCEPT ![j].status = FailStatus]
                     /\ SetThread(t, "failed", j, i)
             ELSE IF return_code # 0
                THEN /\ jobs' = [jobs EXCEPT ![j] =
                                   [LogOutput(@, i, lines) EXCEPT !.status = FailStatus]]
                     /\ SetThread(t, "failed", j, i)
             ELSE /\ jobs' = [jobs EXCEPT ![j] =
                                append_log(LogOutput(@, i, lines), "Completed", i)]
                  /\ SetThread(t, "progress", j, i)
    /\ UNCHANGED <<queue, max_parallel_jobs, settings, now, patch,
                   dequeues, listed, built, stop_event, creating>>

\* a failure that stamps started_at again
RunJobFailedRestamp(t) ==
    /\ t.pc = "failed"
    /\ LET j == t.job
       IN jobs' = [jobs EXCEPT ![j] =
                     append_log([@ EXCEPT !.started_at = now, !.finished_at = now],
                                "Failed", 0)]
    /\ SetThread(t, "idle", 0, 0)
    /\ UNCHANGED <<queue, max_parallel_jobs, settings, now, patch,
                   dequeues, popen_calls, listed, built,
                   stop_event, creating>>

\* a failure that escapes _run_job and ends the worker thread
RunJobFailedCrash(t) ==
    /\ t.pc = "failed"
    /\ LET j == t.job
       IN jobs' = [jobs EXCEPT ![j] =
                     append_log([@ EXCEPT !.finished_at = now], "Failed", 0)]
    /\ SetThread(t, "exited", 0, 0)
    /\ UNCHANGED <<queue, max_parallel_jobs, settings, now, patch,
                   dequeues, popen_calls, listed, built,
                   stop_event, creating>>

\* lines 176-178: finished_at, the failure message, return to the worker loop
RunJobFailed(t) ==
    /\ t.pc = "failed"
    /\ LET j == t.job
       IN jobs' = [jobs EXCEPT ![j] =
                     append_log([@ EXCEPT !.finished_at = now], "Failed", 0)]
    /\ SetThread(t, "idle", 0, 0)
    /\ UNCHANGED <<queue, max_parallel_jobs, settings, now, patch,
                   dequeues, popen_calls, listed, built,
                   stop_event, creating>>

\* a progress that counts the inputs left, not the inputs done
ProgressRemaining(index, total_files) ==
    Fraction(total_files - index, total_files)

\* a progress that counts the inputs begun, not the inputs done
ProgressAhead(index, total_files) ==
    IF index < total_files THEN Fraction(index + 1, total_files)
    ELSE Fraction(index, total_files)

\* line 179: progress = index / total_files
ProgressAfter(index, total_files) == Fraction(index, total_files)

\* line 179 and the loop's next iteration or exit
RunJobProgress(t) ==
    /\ t.pc = "progress"
    /\ LET j == t.job
           i == t.index
           total_files == Len(jobs[j].input_files)
       IN /\ jobs' = [jobs EXCEPT ![j].progress = ProgressAfter(i, total_files)]
          /\ IF i < total_files
                THEN SetThread(t, "build", j, i + 1)
             ELSE SetThread(t, "complete", j, i)
    /\ UNCHANGED <<queue, max_parallel_jobs, settings, now, patch,
                   dequeues, popen_calls, listed, built,
                   stop_event, creating>>

\* line 181
RunJobComplete(t) ==
    /\ t.pc = "complete"
    /\ LET j == t.job
       IN jobs' = [jobs EXCEPT ![j].status = COMPLETED]
    /\ SetThread(t, "finish", t.job, t.index)
    /\ UNCHANGED <<queue, max_parallel_jobs, settings, now, patch,
                   dequeues, popen_calls, listed, built,
                   stop_event, creating>>

\* a completion that leaves finished_at unset
RunJobFinishUnstamped(t) ==
    /\ t.pc = "finish"
    /\ LET j == t.job
       IN jobs' = [jobs EXCEPT ![j] =
                     append_log(@, "Job finished successfully", 0)]
    /\ SetThread(t, "idle", 0, 0)
    /\ UNCHANGED <<queue, max_parallel_jobs, settings, now, patch,
                   dequeues, popen_calls, listed, built,
                   stop_event, creating>>

\* lines 182-183: finished_at, the completion message, return to the loop
RunJobFinish(t) ==
    /\ t.pc = "finish"
    /\ LET j == t.job
       IN jobs' = [jobs EXCEPT ![j] =
                     append_log([@ EXCEPT !.finished_at = now],
                                "Job finished successfully", 0)]
    /\ SetThread(t, "idle", 0, 0)
    /\ UNCHANGED <<queue, max_parallel_jobs, settings, now, patch,
                   dequeues, popen_calls, listed, built,
                   stop_event, creating>>

----------------------------------------------------------------------------
(* FFmpegQueue.list_jobs and the GET /jobs handler *)

\* the fields of a Job that the handlers of main.py show (JobListItem and
\* the log of JobDetail); the id is the job's index in the registry
JobView(job) ==
    [status |-> job.status,
     progress |-> job.progress,
     created_at |-> job.created_at,
     started_at |-> job.started_at,
     finished_at |-> job.finished_at,
     log |-> job.log]

\* lines 75-77: under the lock, list(self._jobs.values()): a new list of
\* references to the Job objects of the registry, not copies of them.  The
\* history keeps the references and what they showed when the call returned.
list_jobs ==
    /\ listed' = [refs |-> [i \in 1..Len(jobs) |-> i],
                  values |-> [i \in 1..Len(jobs) |-> JobView(jobs[i])]]
    /\ UNCHANGED <<jobs, queue, workers, max_parallel_jobs, settings, now,
                   patch, dequeues, popen_calls, built, stop_event, creating>>

\* what the caller of list_jobs reads now through the references it holds
ListedNow == [i \in DOMAIN listed.refs |-> JobView(jobs[listed.refs[i]])]

----------------------------------------------------------------------------
(* watermark.py: the command builder *)

\* A string is the sequence of its pieces: a character of a dynamic value
\* (a one-character string) or a literal of the program text, kept whole.

\* the backslash character
BS == "\\"

\* str.replace(old, new) for a one-character `old`: every occurrence, left
\* to right
RECURSIVE Replace(_, _, _)
Replace(text, old, new) ==
    IF text = <<>> THEN <<>>
    ELSE (IF Head(text) = old THEN new ELSE <<Head(text)>>)
             \o Replace(Tail(text), old, new)

\* an escape that handles the colon before the backslash
escape_text_colon_first(text) ==
    Replace(Replace(Replace(text, ":", <<BS, ":">>), BS, <<BS, BS>>),
            "'", <<BS, "'">>)

\* lines 19-22: the backslash is doubled, then the colon and the single
\* quote get a backslash each
escape_text(text) ==
    Replace(Replace(Replace(text, BS, <<BS, BS>>), ":", <<BS, ":">>),
            "'", <<BS, "'">>)

Digits == <<"0", "1", "2", "3", "4", "5", "6", "7", "8", "9">>

\* str(n) of an integer n >= 0, as format() and f-strings produce it
RECURSIVE Decimal(_)
Decimal(n) ==
    IF n < 10 THEN <<Digits[n + 1]>>
    ELSE Decimal(n \div 10) \o <<Digits[(n % 10) + 1]>>

\* f"{opacity:.2f}" for an opacity given in hundredths (0..100)
TwoDecimals(hundredths) ==
    Decimal(hundredths \div 100)
        \o <<".", Digits[((hundredths \div 10) % 10) + 1], Digits[(hundredths % 10) + 1]>>

Positions == {"top-left", "top-right", "bottom-left", "bottom-right", "center"}

\* a table whose bottom-right anchor measures y from the right edge
POSITION_MAP_SWAPPED ==
    [position \in Positions |->
        CASE position = "top-left" -> <<<<"{x_offset}">>, <<"{y_offset}">>>>
          [] position = "top-right" -> <<<<"W-w-", "{x_offset}">>, <<"{y_offset}">>>>
          [] position = "bottom-left" -> <<<<"{x_offset}">>, <<"H-h-", "{y_offset}">>>>
          [] position = "bottom-right" -> <<<<"W-w-", "{x_offset}">>, <<"W-w-", "{y_offset}">>>>
          [] position = "center" -> <<<<"(W-w)/2">>, <<"(H-h)/2">>>>]

\* lines 10-16: the x and y templates of each anchor position
POSITION_MAP ==
    [position \in Positions |->
        CASE position = "top-left" -> <<<<"{x_offset}">>, <<"{y_offset}">>>>
          [] position = "top-right" -> <<<<"W-w-", "{x_offset}">>, <<"{y_offset}">>>>
          [] position = "bottom-left" -> <<<<"{x_offset}">>, <<"H-h-", "{y_offset}">>>>
          [] position = "bottom-right" -> <<<<"W-w-", "{x_offset}">>, <<"H-h-", "{y_offset}">>>>
          [] position = "center" -> <<<<"(W-w)/2">>, <<"(H-h)/2">>>>]

\* template.format(name=value): the placeholder is replaced by str(value)
Format(template, placeholder, value) ==
    Replace(template, placeholder, Decimal(value))

\* ":".join(...)
RECURSIVE Join(_)
Join(strings) ==
    IF strings = <<>> THEN <<>>
    ELSE IF Len(strings) = 1 THEN Head(strings)
    ELSE Head(strings) \o <<":">> \o Join(Tail(strings))

\* lines 36-47: the drawtext arguments in insertion order, each as
\* f"{key}={value}"; the opacity is in hundredths
DrawtextArgs(watermark, x_expr, y_expr) ==
    LET color == IF watermark.opacity < 100
                    THEN watermark.color \o <<"@">> \o TwoDecimals(watermark.opacity)
                 ELSE watermark.color
        args == << <<"text=">> \o escape_text(watermark.text),
                   <<"fontcolor=">> \o color,
                   <<"fontsize=">> \o Decimal(watermark.font_size),
                   <<"x=">> \o x_expr,
                   <<"y=">> \o y_expr >>
    IN IF watermark.font_path # <<>>
          THEN Append(args, <<"fontfile=">> \o watermark.font_path)
       ELSE args

\* lines 25-60: (extra_inputs, filter_complex), or the ValueError of line 53
build_filter_and_inputs(job) ==
    LET watermark == job.watermark
        x_expr == Format(POSITION_MAP[watermark.position][1], "{x_offset}",
                         watermark.offset_x)
        y_expr == Format(POSITION_MAP[watermark.position][2], "{y_offset}",
                         watermark.offset_y)
    IN IF watermark.type = TEXT
          THEN [raised |-> FALSE,
                extra_inputs |-> <<>>,
                filter_complex |->
                    << <<"drawtext=">> \o Join(DrawtextArgs(watermark, x_expr, y_expr)) >>]
       ELSE IF BuildRaises(job)
          THEN [raised |-> TRUE, extra_inputs |-> <<>>, filter_complex |-> <<>>]
       ELSE [raised |-> FALSE,
             extra_inputs |-> <<"-i", watermark.image_path>>,
             filter_complex |->
                 << <<"[1]format=rgba,colorchannelmixer=aa=">>
                        \o TwoDecimals(watermark.opacity)
                        \o <<"[wm];", "[0][wm]overlay=">>
                        \o x_expr \o <<":">> \o y_expr >>]

\* metadata.get(key, default)
MetadataGet(metadata, key, default) ==
    IF key \in DOMAIN metadata THEN metadata[key] ELSE default

\* lines 69-74: the video encoder arguments for the job's target device
EncoderArgs(job) ==
    IF job.target_device = "cpu"
        THEN <<"-c:v", "libx264", "-preset",
               MetadataGet(job.metadata, "preset", "medium")>>
    ELSE IF job.target_device = "intel" THEN <<"-c:v", "h264_qsv">>
    ELSE IF job.target_device = "nvidia" THEN <<"-c:v", "h264_nvenc">>
    ELSE <<>>

\* lines 63-76: the command, as its consecutive parts: binary and input,
\* the watermark inputs, the filter (";".join of the one filter is that
\* filter), the encoder, the audio codec and the output
build_ffmpeg_command(job, input_file, output_file) ==
    LET result == build_filter_and_inputs(job)
    IN [raised |-> result.raised,
        binary |-> <<MetadataGet(job.metadata, "ffmpeg_binary", "ffmpeg"),
                     "-y", "-i", input_file>>,
        extra_inputs |-> result.extra_inputs,
        filter_complex |-> result.filter_complex,
        encoder |-> EncoderArgs(job),
        output |-> <<"-c:a", "copy", output_file>>]

\* the command is built for the first input of job j; the history keeps it
BuildCommand(j) ==
    /\ built' = build_ffmpeg_command(jobs[j], 1, 1)
    /\ UNCHANGED <<jobs, queue, workers, max_parallel_jobs, settings, now,
                   patch, dequeues, popen_calls, listed,
                   stop_event, creating>>

\* the builder is applied to job j; the history keeps what it returned
BuildFilter(j) ==
    /\ built' = build_filter_and_inputs(jobs[j])
    /\ UNCHANGED <<jobs, queue, workers, max_parallel_jobs, settings, now,
                   patch, dequeues, popen_calls, listed,
                   stop_event, creating>>

----------------------------------------------------------------------------
(* schemas.SettingsUpdate and FFmpegQueue.update_settings *)

\* A payload is a record of the fields the request supplies; a field that is
\* absent (or null) is not in its domain.
Supplied(payload, field) == field \in DOMAIN payload

\* a validator that lets 0 through
validate_parallel_jobs_nonneg(payload) ==
    Supplied(payload, "max_parallel_jobs") => payload.max_parallel_jobs >= 0

\* schemas.py lines 79-89: the two validators
validate_parallel_jobs(payload) ==
    Supplied(payload, "max_parallel_jobs") => payload.max_parallel_jobs >= 1

validate_output_format(payload) ==
    Supplied(payload, "default_output_format") => payload.default_output_format # ""

SettingsUpdateValid(payload) ==
    validate_parallel_jobs(payload) /\ validate_output_format(payload)

\* line 122: the pool is resized when a size is supplied and differs
ResizeRequested(payload) ==
    Supplied(payload, "max_parallel_jobs")
        /\ payload.max_parallel_jobs # max_parallel_jobs

\* line 141: len(self._workers)
CurrentWorkers == BagCardinality(workers)

\* _resize_workers, lines 140-151, for the new size m: the roster and the
\* queue afterwards
ResizeRoster(m) ==
    IF m > CurrentWorkers THEN SpawnThreads(workers, m - CurrentWorkers)
    ELSE IF m < CurrentWorkers THEN Prune(workers)
    ELSE workers

ResizeQueue(m) ==
    IF m < CurrentWorkers THEN PutStops(queue, CurrentWorkers - m)
    ELSE queue

\* an update that takes an absent allow_gpu for False
UpdatedSettingsGpuReset(payload) ==
    [max_parallel_jobs |->
        IF ResizeRequested(payload) THEN payload.max_parallel_jobs
        ELSE settings.max_parallel_jobs,
     default_output_format |->
        IF Supplied(payload, "default_output_format")
            THEN payload.default_output_format
        ELSE settings.default_output_format,
     ffmpeg_binary |->
        IF Supplied(payload, "ffmpeg_binary") THEN payload.ffmpeg_binary
        ELSE settings.ffmpeg_binary,
     allow_gpu |-> Supplied(payload, "allow_gpu") /\ payload.allow_gpu]

\* lines 125-135: the settings after the update
UpdatedSettings(payload) ==
    [max_parallel_jobs |->
        IF ResizeRequested(payload) THEN payload.max_parallel_jobs
        ELSE settings.max_parallel_jobs,
     default_output_format |->
        IF Supplied(payload, "default_output_format")
            THEN payload.default_output_format
        ELSE settings.default_output_format,
     ffmpeg_binary |->
        IF Supplied(payload, "ffmpeg_binary") THEN payload.ffmpeg_binary
        ELSE settings.ffmpeg_binary,
     allow_gpu |->
        IF Supplied(payload, "allow_gpu") THEN payload.allow_gpu
        ELSE settings.allow_gpu]

\* lines 121-136: `changed`
Changed(payload) ==
    \/ ResizeRequested(payload)
    \/ Supplied(payload, "default_output_format")
    \/ Supplied(payload, "ffmpeg_binary")
    \/ Supplied(payload, "allow_gpu")

\* no retirement is under way: no sentinel is queued and no thread is
\* between its `break` and its end
Settled ==
    /\ \A i \in 1..Len(queue) : queue[i] # STOP
    /\ \A r \in BagToSet(workers) : r.pc # "exiting"

\* the request as the history keeps it: its number, its payload, the
\* response status, and the pool as the request found it
Patched(payload, status) ==
    [n |-> patch.n + 1, payload |-> payload, status |-> status,
     live |-> LiveWorkers, settled |-> Settled]

\* PATCH /settings: the payload is validated by the schema (422 on failure,
\* the handler body does not run), then update_settings runs
update_settings(payload) ==
    /\ IF ~SettingsUpdateValid(payload)
          THEN /\ patch' = Patched(payload, 422)
               /\ UNCHANGED <<jobs, queue, workers, max_parallel_jobs, settings>>
       ELSE /\ patch' = Patched(payload, 200)
            /\ IF ResizeRequested(payload)
                  THEN /\ max_parallel_jobs' = payload.max_parallel_jobs
                       /\ workers' = ResizeRoster(payload.max_parallel_jobs)
                       /\ queue' = ResizeQueue(payload.max_parallel_jobs)
               ELSE UNCHANGED <<max_parallel_jobs, workers, queue>>
            /\ settings' = UpdatedSettings(payload)
            /\ IF Changed(payload)
                  THEN jobs' = [j \in 1..Len(jobs) |->
                                  [jobs[j] EXCEPT !.metadata =
                                      SetDefaultBinary(@, settings'.ffmpeg_binary)]]
               ELSE UNCHANGED jobs
    /\ UNCHANGED <<now, dequeues, popen_calls, listed, built,
                   stop_event, creating>>

\* the clock advances
Tick ==
    /\ now < MaxClock
    /\ now' = now + 1
    /\ UNCHANGED <<jobs, queue, workers, max_parallel_jobs, settings,
                   patch, dequeues, popen_calls, listed, built,
                   stop_event, creating>>

----------------------------------------------------------------------------
(* FFmpegQueue.shutdown, and the worker loop once the stop event is set *)

\* a thread that was waiting at the top of its loop when the event was set:
\* it is at the check of line 93 or inside Queue.get of line 95
WaitingThread == [pc |-> "waiting", job |-> 0, index |-> 0]

\* the roster with every idle thread taken as such a thread
MarkWaiting(roster) ==
    LET n == CopiesIn(NewThread, roster)
    IN IF n = 0 THEN roster
       ELSE (roster (-) [r \in {NewThread} |-> n]) (+) [r \in {WaitingThread} |-> n]

\* lines 110-115: the event is set and one sentinel is put for every thread
\* of the roster; join(timeout=1) waits and changes nothing
shutdown ==
    /\ ~stop_event
    /\ stop_event' = TRUE
    /\ queue' = PutStops(queue, CurrentWorkers)
    /\ workers' = MarkWaiting(workers)
    /\ UNCHANGED <<jobs, max_parallel_jobs, settings, now, patch, dequeues,
                   popen_calls, listed, built, creating>>

\* line 93: back at the top of the loop the thread finds the event set and
\* its function returns
WorkerStop(t) ==
    /\ t.pc = "idle"
    /\ stop_event
    /\ SetThread(t, "exiting", 0, 0)
    /\ UNCHANGED <<jobs, queue, max_parallel_jobs, settings, now, patch,
                   dequeues, popen_calls, listed, built, stop_event, creating>>

\* lines 95-97: the thread was at the check, or its get timed out: it is at
\* the top of the loop
WorkerTimeout(t) ==
    /\ t.pc = "waiting"
    /\ SetThread(t, "idle", 0, 0)
    /\ UNCHANGED <<jobs, queue, max_parallel_jobs, settings, now, patch,
                   dequeues, popen_calls, listed, built, stop_event, creating>>

\* lines 95-104 for a thread that was inside Queue.get when the event was
\* set: it takes the head of the queue as it would have before
WorkerLateGet(t) ==
    /\ t.pc = "waiting"
    /\ queue # <<>>
    /\ LET job_id == Head(queue)
       IN /\ queue' = Tail(queue)
          /\ IF job_id = STOP
                THEN /\ SetThread(t, "exiting", 0, 0)
                     /\ UNCHANGED dequeues
             ELSE IF job_id \notin 1..Len(jobs)
                THEN /\ SetThread(t, "idle", 0, 0)
                     /\ UNCHANGED dequeues
             ELSE /\ SetThread(t, "run_job", job_id, 0)
                  /\ dequeues' = [dequeues EXCEPT ![job_id] = @ + 1]
    /\ UNCHANGED <<jobs, max_parallel_jobs, settings, now, patch,
                   popen_calls, listed, built, stop_event, creating>>

----------------------------------------------------------------------------
(* The pool under load: submissions, workers, pool resizes *)

TextWatermark == [type |-> TEXT, text |-> "Hi", image_path |-> ""]

ImageWatermark == [type |-> IMAGE, text |-> "", image_path |-> "logo.png"]

\* an image watermark that reached create_job without a path
BadWatermark == [type |-> IMAGE, text |-> "", image_path |-> ""]

NoMetadata == <<>>

\* the states of the threads of the roster
Threads == BagToSet(workers)

\* POST /jobs with a text watermark and one file
Submit ==
    /\ Len(jobs) < MaxJobs
    /\ create_job(1, TextWatermark, "", "cpu", NoMetadata)

\* PATCH /settings {"max_parallel_jobs": m}
Resize ==
    /\ patch.n < MaxUpdates
    /\ \E m \in 1..MaxPool : update_settings([max_parallel_jobs |-> m])

\* a transcoder run that prints nothing and exits with 0 or 1
Execute ==
    \E t \in Threads, return_code \in {0, 1} : RunJobExecute(t, TRUE, 0, return_code)

Init == InitWith(1..MaxPool, {FALSE})

\* the steps of the workers that take and run jobs
JobSteps ==
    \/ \E t \in Threads : WorkerGet(t)
    \/ \E t \in Threads : RunJobBegin(t)
    \/ \E t \in Threads : RunJobStamp(t)
    \/ \E t \in Threads : RunJobBuild(t, TRUE)
    \/ Execute
    \/ \E t \in Threads : RunJobFailed(t)
    \/ \E t \in Threads : RunJobProgress(t)
    \/ \E t \in Threads : RunJobComplete(t)
    \/ \E t \in Threads : RunJobFinish(t)

WorkerNext ==
    \/ JobSteps
    \/ \E t \in Threads : WorkerExit(t)

Next ==
    \/ Submit
    \/ Resize
    \/ WorkerNext

Spec == Init /\ [][Next]_vars

----------------------------------------------------------------------------
(* A pool of fixed size: a burst of submissions, no reconfiguration *)

MaxBurst == 3

SubmitBurst ==
    /\ Len(jobs) < MaxBurst
    /\ create_job(1, TextWatermark, "", "cpu", NoMetadata)

NextFixed ==
    \/ SubmitBurst
    \/ JobSteps

SpecFixed == Init /\ [][NextFixed]_vars

\* worker threads are scheduled by the operating system and every transcoder
\* run ends: a worker step that stays possible is eventually taken
FairSpecFixed == SpecFixed /\ WF_vars(JobSteps)

----------------------------------------------------------------------------
(* Reconfiguration: every kind of payload, beside one job and the workers *)

SettingsFields ==
    {"max_parallel_jobs", "allow_gpu", "default_output_format", "ffmpeg_binary"}

\* the values a request can carry: pool sizes below 1, below, at and above
\* the start-up size, both flags, an empty and a non-empty format, another
\* transcoder binary
FullPayloads ==
    [max_parallel_jobs : {-1, 0, 1, 2, 3},
     allow_gpu : BOOLEAN,
     default_output_format : {"", "mkv"},
     ffmpeg_binary : {"/opt/ffmpeg"}]

\* a partial payload: any subset of the fields of a full one
Payloads ==
    {[f \in fields |-> full[f]] : fields \in SUBSET SettingsFields,
                                  full \in FullPayloads}

MaxPatches == 1

Patch ==
    /\ patch.n < MaxPatches
    /\ \E payload \in Payloads : update_settings(payload)

MaxSettingsJobs == 1

\* POST /jobs for the GPU, in the default format
SubmitGpu ==
    /\ Len(jobs) < MaxSettingsJobs
    /\ create_job(1, TextWatermark, "", "nvidia", NoMetadata)

\* a transcoder run that prints nothing and exits with 0
ExecuteOk == \E t \in Threads : RunJobExecute(t, TRUE, 0, 0)

NextSettings ==
    \/ SubmitGpu
    \/ Patch
    \/ \E t \in Threads : WorkerGet(t)
    \/ \E t \in Threads : WorkerExit(t)
    \/ \E t \in Threads : RunJobBegin(t)
    \/ \E t \in Threads : RunJobStamp(t)
    \/ \E t \in Threads : RunJobBuild(t, TRUE)
    \/ ExecuteOk
    \/ \E t \in Threads : RunJobProgress(t)
    \/ \E t \in Threads : RunJobComplete(t)
    \/ \E t \in Threads : RunJobFinish(t)

\* the pool starts with the default of config.py, 2 workers, and GPUs
\* allowed or not
InitSettings == InitWith({DefaultParallelJobs}, BOOLEAN)

SpecSettings == InitSettings /\ [][NextSettings]_vars

----------------------------------------------------------------------------
(* One worker running jobs of several inputs, with every way an input fails *)

MaxRuns == 1

\* POST /jobs with 1..MaxInputs files and a text watermark, or an image
\* watermark that has no path
SubmitFiles ==
    /\ Len(jobs) < MaxRuns
    /\ \E n \in 1..MaxInputs, watermark \in {TextWatermark, BadWatermark} :
           create_job(n, watermark, "", "cpu", NoMetadata)

\* the output directory can or cannot be created
BuildAny == \E t \in Threads, mkdir_ok \in BOOLEAN : RunJobBuild(t, mkdir_ok)

\* the transcoder starts or not, prints a line or none, exits with 0 or 1
ExecuteAny ==
    \E t \in Threads, popen_ok \in BOOLEAN, lines \in {0, 1}, return_code \in {0, 1} :
        RunJobExecute(t, popen_ok, lines, return_code)

NextJob ==
    \/ SubmitFiles
    \/ Tick
    \/ \E t \in Threads : WorkerGet(t)
    \/ \E t \in Threads : RunJobBegin(t)
    \/ \E t \in Threads : RunJobStamp(t)
    \/ BuildAny
    \/ ExecuteAny
    \/ \E t \in Threads : RunJobFailed(t)
    \/ \E t \in Threads : RunJobProgress(t)
    \/ \E t \in Threads : RunJobComplete(t)
    \/ \E t \in Threads : RunJobFinish(t)

InitJob == InitWith({1}, {FALSE})

SpecJob == InitJob /\ [][NextJob]_vars

----------------------------------------------------------------------------
(* Several jobs whose inputs can fail in every way, on a pool of one or two *)

MaxFaultJobs == 2

\* POST /jobs with one or two files and a text watermark, or an image
\* watermark that has no path
SubmitFaulty ==
    /\ Len(jobs) < MaxFaultJobs
    /\ \E n \in {1, 2}, watermark \in {TextWatermark, BadWatermark} :
           create_job(n, watermark, "", "cpu", NoMetadata)

\* the transcoder starts or not, prints nothing, exits with 0 or 1
ExecuteFaulty ==
    \E t \in Threads, popen_ok \in BOOLEAN, return_code \in {0, 1} :
        RunJobExecute(t, popen_ok, 0, return_code)

\* the steps of the workers, an input failing or not at every point
FaultSteps ==
    \/ \E t \in Threads : WorkerGet(t)
    \/ \E t \in Threads : RunJobBegin(t)
    \/ \E t \in Threads : RunJobStamp(t)
    \/ BuildAny
    \/ ExecuteFaulty
    \/ \E t \in Threads : RunJobFailed(t)
    \/ \E t \in Threads : RunJobProgress(t)
    \/ \E t \in Threads : RunJobComplete(t)
    \/ \E t \in Threads : RunJobFinish(t)

NextFaults ==
    \/ SubmitFaulty
    \/ FaultSteps

InitFaults == InitWith({1, 2}, {FALSE})

SpecFaults == InitFaults /\ [][NextFaults]_vars

\* worker threads are scheduled by the operating system and every transcoder
\* run ends
FairSpecFaults == SpecFaults /\ WF_vars(FaultSteps)

----------------------------------------------------------------------------
(* Readers: GET /jobs at any moment, beside submissions and one worker *)

MaxReaderJobs == 2

SubmitListed ==
    /\ Len(jobs) < MaxReaderJobs
    /\ create_job(1, TextWatermark, "", "cpu", NoMetadata)

NextReaders ==
    \/ SubmitListed
    \/ list_jobs
    \/ JobSteps

InitReaders == InitWith({1}, {FALSE})

SpecReaders == InitReaders /\ [][NextReaders]_vars

----------------------------------------------------------------------------
(* The command builder applied to one submitted job *)

MaxText == 3

\* the characters of a watermark text: the three the filter language reads
\* specially, and an ordinary one
TextAlphabet == {BS, ":", "'", "a"}

\* the non-empty texts of up to MaxText characters
Texts == UNION {[1..n -> TextAlphabet] : n \in 1..MaxText}

ExampleText == <<"H", "i", ":", " ", "t", "h", "e", "r", "e">>

\* offsets at both ends of the range the schema admits (0..4096) and the
\* default
Offsets == {0, 20, 4096}

\* WatermarkSettingsIn with the defaults of the schema for font size and
\* color and no font file; the opacity is in hundredths
Watermark(type, text, image_path, opacity, position, offset_x, offset_y) ==
    [type |-> type,
     text |-> text,
     font_path |-> <<>>,
     font_size |-> 36,
     color |-> <<"white">>,
     image_path |-> image_path,
     opacity |-> opacity,
     position |-> position,
     offset_x |-> offset_x,
     offset_y |-> offset_y]

\* POST /jobs with a text watermark of any text, at the default position
SubmitText ==
    /\ jobs = <<>>
    /\ \E text \in Texts :
           create_job(1, Watermark(TEXT, text, "", 100, "top-right", 20, 20),
                      "", "cpu", NoMetadata)

\* POST /jobs with the text "Hi: there" at the center, offsets (0, 0)
SubmitExample ==
    /\ jobs = <<>>
    /\ create_job(1, Watermark(TEXT, ExampleText, "", 100, "center", 0, 0),
                  "", "cpu", NoMetadata)

\* POST /jobs with a text or an image watermark at any position and offsets
SubmitPlaced ==
    /\ jobs = <<>>
    /\ \E type \in {TEXT, IMAGE}, position \in Positions,
          offset_x \in Offsets, offset_y \in Offsets, opacity \in {50, 100} :
           create_job(1,
                      Watermark(type,
                                IF type = TEXT THEN <<"a">> ELSE <<>>,
                                IF type = IMAGE THEN "logo.png" ELSE "",
                                opacity, position, offset_x, offset_y),
                      "", "cpu", NoMetadata)

Build == \E j \in 1..Len(jobs) : BuildFilter(j)

NextCommand ==
    \/ SubmitText
    \/ SubmitExample
    \/ SubmitPlaced
    \/ Build

InitCommand == InitWith({1}, {FALSE})

SpecCommand == InitCommand /\ [][NextCommand]_vars

----------------------------------------------------------------------------
(* The command builder on a text watermark with a font file and a color *)

MaxStyle == 2

\* the non-empty strings of up to MaxStyle characters, special or ordinary
StyleStrings == UNION {[1..n -> TextAlphabet] : n \in 1..MaxStyle}

\* the path C:/f of a font file on a Windows drive
ExampleFont == <<"C", ":", "/", "f">>

FontPaths == StyleStrings \cup {ExampleFont}

Colors == StyleStrings \cup {<<"white">>}

\* WatermarkSettingsIn of a text watermark with the form fields font_path
\* and color as given
StyledWatermark(font_path, color) ==
    [Watermark(TEXT, <<"a">>, "", 100, "top-right", 20, 20)
        EXCEPT !.font_path = font_path, !.color = color]

\* POST /jobs with a text watermark, a font file and a color
SubmitStyled ==
    /\ jobs = <<>>
    /\ \E font_path \in FontPaths, color \in Colors :
           create_job(1, StyledWatermark(font_path, color), "", "cpu", NoMetadata)

NextStyle ==
    \/ SubmitStyled
    \/ Build

InitStyle == InitWith({1}, {FALSE})

SpecStyle == InitStyle /\ [][NextStyle]_vars

----------------------------------------------------------------------------
(* Target devices: submissions for any device while the GPU flag changes *)

MaxDeviceJobs == 2

MaxDevicePatches == 2

\* the devices a request may name: the three known ones and an unknown one
RequestedDevices == Devices \cup {"tpu"}

\* the metadata the handler passes: a preset or none
Presets == {NoMetadata, [preset |-> "fast"]}

\* main.py lines 104-105: the handler already turns a GPU device into "cpu"
\* while GPUs are not allowed
HandlerDevice(target_device) ==
    IF target_device # "cpu" /\ ~settings.allow_gpu THEN "cpu" ELSE target_device

\* POST /jobs with target_device = d
SubmitDevice(d, metadata) ==
    /\ Len(jobs) < MaxDeviceJobs
    /\ create_job(1, Watermark(TEXT, <<"a">>, "", 100, "top-right", 20, 20),
                  "", HandlerDevice(d), metadata)

\* FFmpegQueue.create_job called with target_device = d
CallCreate(d, metadata) ==
    /\ Len(jobs) < MaxDeviceJobs
    /\ create_job(1, Watermark(TEXT, <<"a">>, "", 100, "top-right", 20, 20),
                  "", d, metadata)

\* PATCH /settings {"allow_gpu": b}
AllowGpu ==
    /\ patch.n < MaxDevicePatches
    /\ \E b \in BOOLEAN : update_settings([allow_gpu |-> b])

NextDevices ==
    \/ \E d \in RequestedDevices, metadata \in Presets : SubmitDevice(d, metadata)
    \/ \E d \in RequestedDevices, metadata \in Presets : CallCreate(d, metadata)
    \/ AllowGpu
    \/ \E j \in 1..Len(jobs) : BuildCommand(j)

InitDevices == InitWith({1}, {FALSE})

SpecDevices == InitDevices /\ [][NextDevices]_vars

----------------------------------------------------------------------------
(* Submissions statement by statement, interleaved with the workers *)

MaxCreateJobs == 2

\* POST /jobs with a text watermark and one file reaches create_job
SubmitBegin ==
    /\ Len(jobs) < MaxCreateJobs
    /\ CreateBegin(1, TextWatermark, "", "cpu", NoMetadata)

NextCreate ==
    \/ SubmitBegin
    \/ CreateStore
    \/ CreateLog
    \/ CreatePut
    \/ JobSteps

InitCreate == InitWith({1, 2}, {FALSE})

SpecCreate == InitCreate /\ [][NextCreate]_vars

----------------------------------------------------------------------------
(* Cancellation from outside: a queued job is flipped to cancelled *)

MaxCancelJobs == 2

SubmitCancellable ==
    /\ Len(jobs) < MaxCancelJobs
    /\ create_job(1, TextWatermark, "", "cpu", NoMetadata)

\* The program has no cancel operation; Job.status is a plain attribute
\* that a caller holding the Job can set.  The status of job j is set to
\* cancelled while j is queued and no worker has taken its id off the queue.
Cancel(j) ==
    /\ jobs[j].status = QUEUED
    /\ dequeues[j] = 0
    /\ jobs' = [jobs EXCEPT ![j].status = CANCELLED]
    /\ UNCHANGED <<queue, workers, max_parallel_jobs, settings, now,
                   patch, dequeues, popen_calls, listed, built,
                   stop_event, creating>>

NextCancel ==
    \/ SubmitCancellable
    \/ \E j \in 1..Len(jobs) : Cancel(j)
    \/ JobSteps

InitCancel == InitWith({1, 2}, {FALSE})

SpecCancel == InitCancel /\ [][NextCancel]_vars

----------------------------------------------------------------------------
(* Shutdown: a pool of one or two, resized or not, a job, then shutdown *)

MaxStopJobs == 1

MaxStopPatches == 1

SubmitStoppable ==
    /\ Len(jobs) < MaxStopJobs
    /\ create_job(1, TextWatermark, "", "cpu", NoMetadata)

\* PATCH /settings {"max_parallel_jobs": m} before the shutdown
ResizeBeforeStop ==
    /\ patch.n < MaxStopPatches
    /\ ~stop_event
    /\ \E m \in {1, 2} : update_settings([max_parallel_jobs |-> m])

\* the steps of the workers, the stop event set or not
StopSteps ==
    \/ \E t \in Threads : WorkerGet(t)
    \/ \E t \in Threads : WorkerStop(t)
    \/ \E t \in Threads : WorkerTimeout(t)
    \/ \E t \in Threads : WorkerLateGet(t)
    \/ \E t \in Threads : WorkerExit(t)
    \/ \E t \in Threads : RunJobBegin(t)
    \/ \E t \in Threads : RunJobStamp(t)
    \/ \E t \in Threads : RunJobBuild(t, TRUE)
    \/ Execute
    \/ \E t \in Threads : RunJobFailed(t)
    \/ \E t \in Threads : RunJobProgress(t)
    \/ \E t \in Threads : RunJobComplete(t)
    \/ \E t \in Threads : RunJobFinish(t)

NextShutdown ==
    \/ SubmitStoppable
    \/ ResizeBeforeStop
    \/ shutdown
    \/ StopSteps

InitShutdown == InitWith({1, 2}, {FALSE})

SpecShutdown == InitShutdown /\ [][NextShutdown]_vars

\* worker threads are scheduled by the operating system, Queue.get returns
\* or times out, and every transcoder run ends
FairSpecShutdown == SpecShutdown /\ WF_vars(StopSteps)

----------------------------------------------------------------------------
(* Properties *)

JobIds == 1..Len(jobs)

StatusOf(j) == jobs[j].status

RunningJobs == {j \in JobIds : StatusOf(j) = RUNNING}

\* the threads of the roster that hold job j, counted with multiplicity
Holders(j) == CountIn(workers, {r \in BagToSet(workers) : r.job = j})

\* the status changes the state machine allows
AllowedTransitions ==
    {<<QUEUED, RUNNING>>, <<RUNNING, COMPLETED>>, <<RUNNING, FAILED>>,
     <<QUEUED, CANCELLED>>, <<RUNNING, CANCELLED>>}

\* C1: every status change of every job is queued->running,
\* running->completed, running->failed, or a change into cancelled from
\* queued or running; so a completed, failed or cancelled job never changes
\* status again.
C1_StatusTransitions ==
    [][\A j \in JobIds :
          jobs'[j].status # jobs[j].status
              => <<jobs[j].status, jobs'[j].status>> \in AllowedTransitions]_vars

\* C1 witness: after a pool resize, one job has failed and another completed
C1_Witness ==
    /\ patch.n > 0
    /\ \E j \in JobIds : StatusOf(j) = FAILED /\ jobs[j].finished_at # None
    /\ \E j \in JobIds : StatusOf(j) = COMPLETED /\ jobs[j].finished_at # None

\* C2: no job is in the hands of two workers at once, and no job is taken
\* off the queue more than once: a job that has left the queued state was
\* dequeued exactly once, and at most one thread holds it.
C2_SingleOwner ==
    \A j \in JobIds :
        /\ Holders(j) <= 1
        /\ dequeues[j] <= 1
        /\ StatusOf(j) # QUEUED => dequeues[j] = 1
        /\ StatusOf(j) = RUNNING => Holders(j) = 1

\* C2 witness: two workers run two different jobs at the same time
C2_Witness ==
    /\ Len(jobs) >= 2
    /\ StatusOf(1) = RUNNING /\ StatusOf(2) = RUNNING
    /\ Holders(1) = 1 /\ Holders(2) = 1
    /\ dequeues[1] = 1 /\ dequeues[2] = 1

\* C3: with a pool of fixed size P, at most P jobs are running at any time,
\* however many jobs were submitted.
C3_AtMostPoolRunning ==
    Cardinality(RunningJobs) <= max_parallel_jobs

\* C3 witness: more jobs than workers, every worker busy, a job waiting
C3_Witness ==
    /\ Len(jobs) > max_parallel_jobs
    /\ max_parallel_jobs >= 2
    /\ Cardinality(RunningJobs) = max_parallel_jobs
    /\ \E j \in JobIds : StatusOf(j) = QUEUED

\* C4: with a pool of size P >= 1 and fair workers whose transcoder runs
\* all end, every submitted job eventually is completed or failed.
C4_EveryJobEnds ==
    \A j \in 1..MaxBurst :
        (Len(jobs) >= j) ~> (Len(jobs) >= j /\ jobs[j].status \in {COMPLETED, FAILED})

\* C4 witness: more jobs than workers were submitted and all of them ended,
\* one completed and one failed, with nothing left to do
C4_Witness ==
    /\ Len(jobs) = MaxBurst
    /\ Len(jobs) > max_parallel_jobs
    /\ \A j \in JobIds : StatusOf(j) \in {COMPLETED, FAILED}
    /\ \E j \in JobIds : StatusOf(j) = COMPLETED
    /\ \E j \in JobIds : StatusOf(j) = FAILED
    /\ queue = <<>>
    /\ \A r \in BagToSet(workers) : r.pc = "idle"

\* the last request was accepted and asked for a pool of m workers
LastResizeTo(m) ==
    /\ patch.status = 200
    /\ Supplied(patch.payload, "max_parallel_jobs")
    /\ patch.payload.max_parallel_jobs = m

\* C5: a resize of a pool with N live workers down to M < N leaves exactly
\* M live workers.  As a statement about the state in which the retirement
\* has ended (no sentinel queued, no thread leaving): if the last request
\* found a settled pool of N live workers and asked for M < N, then M
\* workers are alive.
C5_ResizeDownLeavesM ==
    \A m \in 1..MaxPool :
        (LastResizeTo(m) /\ patch.settled /\ m < patch.live /\ Settled)
            => LiveWorkers = m

\* C6: no job is dropped or run twice by resizing.  A job that has not ended
\* needs a worker that can still take a step (only workers move a job), and
\* no job is taken off the queue twice.
C6_NoJobStranded ==
    /\ \A j \in JobIds : dequeues[j] <= 1
    /\ (\E j \in JobIds : StatusOf(j) \notin {COMPLETED, FAILED})
           => ENABLED WorkerNext

\* C7: after the last reconfiguration, once the retirement has ended, the
\* number of live workers is the requested size and the roster holds the
\* live workers and nothing else.
C7_PoolSizeTakesEffect ==
    (patch.n > 0 /\ Settled)
        => /\ LiveWorkers = max_parallel_jobs
           /\ CurrentWorkers = LiveWorkers

\* a payload the interface must reject: a pool size below 1, or an empty
\* default output format
OutOfRange(payload) ==
    \/ Supplied(payload, "max_parallel_jobs") /\ payload.max_parallel_jobs <= 0
    \/ Supplied(payload, "default_output_format")
           /\ payload.default_output_format = ""

\* C8: a reconfiguration request with a pool size of 0 or less, or an empty
\* default output format, is answered with an error and changes nothing:
\* pool size, roster, queue, settings (format, binary, GPU flag) and jobs
\* are as before.
C8_InvalidRejected ==
    [][(patch'.n = patch.n + 1 /\ OutOfRange(patch'.payload))
          => /\ patch'.status = 422
             /\ UNCHANGED <<max_parallel_jobs, workers, queue, settings, jobs>>]_vars

\* C8 witness: a request for 0 workers that also supplies a valid field was
\* rejected while a job was queued
C8_Witness ==
    /\ patch.n = 1
    /\ patch.status = 422
    /\ Supplied(patch.payload, "max_parallel_jobs")
    /\ patch.payload.max_parallel_jobs = 0
    /\ Supplied(patch.payload, "allow_gpu") /\ patch.payload.allow_gpu
    /\ ~settings.allow_gpu
    /\ queue # <<>>

\* C9: an accepted reconfiguration changes only the fields it supplies, and
\* one whose pool size is absent or equal to the current size spawns no
\* worker and posts no sentinel.
C9_PartialUpdateFrame ==
    [][(patch'.n = patch.n + 1 /\ patch'.status = 200)
          => LET payload == patch'.payload
             IN /\ \A f \in SettingsFields :
                      ~Supplied(payload, f) => settings'[f] = settings[f]
                /\ \A f \in SettingsFields \ {"max_parallel_jobs"} :
                      Supplied(payload, f) => settings'[f] = payload[f]
                /\ ~Supplied(payload, "max_parallel_jobs")
                      => max_parallel_jobs' = max_parallel_jobs
                /\ (~Supplied(payload, "max_parallel_jobs")
                        \/ payload.max_parallel_jobs = max_parallel_jobs)
                      => workers' = workers /\ queue' = queue]_vars

\* C9 witness: with GPUs allowed, a request that supplies only the format
\* was accepted and left the flag, the binary and the pool alone
C9_Witness ==
    /\ patch.n = 1
    /\ patch.status = 200
    /\ DOMAIN patch.payload = {"default_output_format"}
    /\ settings.default_output_format = "mkv"
    /\ settings.allow_gpu
    /\ settings.ffmpeg_binary = DefaultFfmpegBinary
    /\ settings.max_parallel_jobs = max_parallel_jobs

\* the entries of a log with this message, in order
RECURSIVE Entries(_, _)
Entries(log, msg) ==
    IF log = <<>> THEN <<>>
    ELSE IF Head(log).msg = msg THEN <<Head(log)>> \o Entries(Tail(log), msg)
    ELSE Entries(Tail(log), msg)

\* the number of inputs of job j the log reports as completed
Succeeded(j) == Len(Entries(jobs[j].log, "Completed"))

\* job j has failed and its worker has returned from _run_job
FailedAndLeft(j) == StatusOf(j) = FAILED /\ Holders(j) = 0

\* C10: a job of n inputs whose inputs 1..k succeeded and whose input k+1
\* failed ends failed, with progress k/n, finished_at set, exactly one
\* failure entry (the last of the log), and nothing built, logged or
\* executed for an input after k+1.
C10_FailedJob ==
    \A j \in JobIds :
        FailedAndLeft(j) =>
            LET job == jobs[j]
                n == Len(job.input_files)
                k == Succeeded(j)
            IN /\ k < n
               /\ \A i \in 1..k : Entries(job.log, "Completed")[i].input = i
               /\ FracEq(job.progress, Fraction(k, n))
               /\ job.finished_at # None
               /\ Len(Entries(job.log, "Failed")) = 1
               /\ job.log[Len(job.log)].msg = "Failed"
               /\ \A e \in 1..Len(job.log) : job.log[e].input <= k + 1
               /\ Len(Entries(job.log, "Processing")) <= k + 1
               /\ Len(Entries(job.log, "Command")) <= k + 1
               /\ Len(popen_calls[j]) <= k + 1
               /\ \A c \in 1..Len(popen_calls[j]) : popen_calls[j][c] = c

\* C10 witness: a job of two inputs whose first input succeeded and whose
\* second was executed and exited with a non-zero code
C10_Witness ==
    \E j \in JobIds :
        /\ FailedAndLeft(j)
        /\ Len(jobs[j].input_files) = 2
        /\ Succeeded(j) = 1
        /\ popen_calls[j] = <<1, 2>>
        /\ jobs[j].progress = Fraction(1, 2)
        /\ Len(Entries(jobs[j].log, "output")) = 2

\* job j was taken by a worker, and the worker has returned from _run_job
Returned(j) == dequeues[j] = 1 /\ Holders(j) = 0

\* C11: a job of n >= 1 inputs that all succeeded ends completed, with
\* progress 1.0, both timestamps set and started_at <= finished_at, and
\* exactly one completion entry, the last of its log.
C11_CompletedJob ==
    \A j \in JobIds :
        LET job == jobs[j]
            n == Len(job.input_files)
        IN (Returned(j) /\ n >= 1 /\ Succeeded(j) = n) =>
               /\ job.status = COMPLETED
               /\ FracEq(job.progress, Fraction(1, 1))
               /\ job.started_at # None
               /\ job.finished_at # None
               /\ job.started_at <= job.finished_at
               /\ Len(Entries(job.log, "Job finished successfully")) = 1
               /\ job.log[Len(job.log)].msg = "Job finished successfully"
               /\ Len(Entries(job.log, "Failed")) = 0

\* C11 witness: a job of two inputs has completed, started at one clock
\* reading and finished at a later one
C11_Witness ==
    \E j \in JobIds :
        /\ Returned(j)
        /\ Len(jobs[j].input_files) = 2
        /\ Succeeded(j) = 2
        /\ StatusOf(j) = COMPLETED
        /\ jobs[j].started_at = 0
        /\ jobs[j].finished_at = 1

\* the threads that hold job j at this point of _run_job
HoldersAt(j, pc) ==
    CountIn(workers, {r \in BagToSet(workers) : r.job = j /\ r.pc = pc})

\* C12: a job's progress never decreases and lies in [0, 1]; it is 0 until
\* the first input succeeds, it is i/n once line 179 has run for the i-th
\* of n inputs (i inputs logged as completed), and it does not change any
\* more once the status is completed, failed or cancelled.
C12_ProgressMonotone ==
    [][\A j \in JobIds :
          LET n == Len(jobs[j].input_files)
              before == jobs[j].progress
              after == jobs'[j].progress
          IN /\ FracLeq(before, after)
             /\ FracLeq(Fraction(0, 1), after)
             /\ FracLeq(after, Fraction(1, 1))
             /\ Succeeded(j)' = 0 => FracEq(after, Fraction(0, 1))
             /\ HoldersAt(j, "progress")' = 0
                    => FracEq(after, Fraction(Succeeded(j)', n))
             /\ HoldersAt(j, "progress")' = 1
                    => FracEq(after, Fraction(Succeeded(j)' - 1, n))
             /\ jobs[j].status \in Terminal => after = before]_vars

\* C12 witness: a job of two inputs at progress 1/2, its second input being
\* executed
C12_Witness ==
    \E j \in JobIds :
        /\ Len(jobs[j].input_files) = 2
        /\ StatusOf(j) = RUNNING
        /\ Succeeded(j) = 1
        /\ jobs[j].progress = Fraction(1, 2)
        /\ HoldersAt(j, "execute") = 1

\* C13: started_at is written once, by the worker that has just set the
\* status to running, and finished_at is written once, by the worker that has
\* just set the status to completed or failed; a timestamp that is set never
\* changes again, a queued job has neither, and a job whose worker has
\* returned has both.
C13_TimestampsOnce ==
    [][\A j \in JobIds :
          LET before == jobs[j]
              after == jobs'[j]
          IN /\ after.started_at # before.started_at
                    => /\ before.started_at = None
                       /\ after.started_at = now
                       /\ before.status = RUNNING
                       /\ HoldersAt(j, "started") = 1
             /\ after.finished_at # before.finished_at
                    => /\ before.finished_at = None
                       /\ after.finished_at = now
                       /\ before.status \in {COMPLETED, FAILED}
                       /\ HoldersAt(j, "failed") + HoldersAt(j, "finish") = 1
             /\ after.status = QUEUED
                    => after.started_at = None /\ after.finished_at = None
             /\ (after.status = RUNNING /\ HoldersAt(j, "started")' = 0)
                    => after.started_at # None /\ after.finished_at = None
             /\ Returned(j)'
                    => after.started_at # None /\ after.finished_at # None]_vars

\* C13 witness: a failed job whose worker has returned, started at one
\* clock reading and finished at a later one
C13_Witness ==
    \E j \in JobIds :
        /\ Returned(j)
        /\ StatusOf(j) = FAILED
        /\ jobs[j].started_at = 0
        /\ jobs[j].finished_at = 1

\* the threads of the roster that wait at the top of the worker loop
IdleWorkers == CountIn(workers, {r \in BagToSet(workers) : r.pc = "idle"})

\* job j was submitted and has failed
HasFailed(j) == IF j \in JobIds THEN StatusOf(j) = FAILED ELSE FALSE

\* job k was submitted, is completed or failed, and its worker has returned
HasEnded(k) ==
    IF k \in JobIds THEN StatusOf(k) \in {COMPLETED, FAILED} /\ Returned(k)
    ELSE FALSE

\* C14: a failure is local to its job.  The steps that fail job j (the
\* status write and the return from _run_job) leave every other job as it
\* was and end no thread; the worker that held j is back at the top of its
\* loop; and every job submitted, before or after, still ends completed or
\* failed, on a pool of one worker too.
C14_FailureIsLocal ==
    /\ [][\A j \in JobIds :
             (jobs'[j].status = FAILED /\ jobs'[j] # jobs[j])
                 => /\ \A k \in JobIds \ {j} : jobs'[k] = jobs[k]
                    /\ LiveWorkers' = LiveWorkers
                    /\ CurrentWorkers' = CurrentWorkers
                    /\ LiveWorkers' = max_parallel_jobs
                    /\ HoldersAt(j, "failed") = 1
                           => /\ Holders(j)' = 0
                              /\ IdleWorkers' = IdleWorkers + 1]_vars
    /\ \A j, k \in 1..MaxFaultJobs :
          (HasFailed(j) /\ Len(jobs) >= k) ~> HasEnded(k)

\* C14 witness: on a pool of one worker the first job failed at its second
\* input, and the same worker then ran the second job to completion
C14_Witness ==
    /\ max_parallel_jobs = 1
    /\ Len(jobs) = 2
    /\ StatusOf(1) = FAILED /\ Returned(1)
    /\ Succeeded(1) = 1
    /\ StatusOf(2) = COMPLETED /\ Returned(2)
    /\ IdleWorkers = 1

\* C15: the list that list_jobs returned is a point-in-time snapshot: what
\* its elements show (status, progress, timestamps, log) stays what it was
\* when the call returned, and the list keeps its elements.
C15_ListIsSnapshot ==
    /\ ListedNow = listed.values
    /\ \A i \in DOMAIN listed.refs : listed.refs[i] = i

\* How the filter language reads an expression: a backslash takes the next
\* piece literally, a colon that is not so escaped ends an option.  The
\* options of expr, in order, after the options already read.
RECURSIVE SplitOptions(_, _)
SplitOptions(expr, options) ==
    IF expr = <<>> THEN options
    ELSE LET last == Len(options)
         IN IF Head(expr) = BS /\ Len(expr) >= 2
               THEN SplitOptions(Tail(Tail(expr)),
                                 [options EXCEPT ![last] = @ \o <<expr[1], expr[2]>>])
            ELSE IF Head(expr) = ":"
               THEN SplitOptions(Tail(expr), Append(options, <<>>))
            ELSE SplitOptions(Tail(expr),
                              [options EXCEPT ![last] = Append(@, Head(expr))])

OptionsOf(expr) == SplitOptions(expr, << <<>> >>)

\* the pieces of a string after the first occurrence of a piece
RECURSIVE After(_, _)
After(string, piece) ==
    IF string = <<>> THEN <<>>
    ELSE IF Head(string) = piece THEN Tail(string)
    ELSE After(Tail(string), piece)

\* the value of the option of a filter that starts with `key`
Field(filter, key) ==
    LET options == OptionsOf(Tail(filter))
        i == CHOOSE i \in DOMAIN options :
                 options[i] # <<>> /\ Head(options[i]) = key
    IN Tail(options[i])

\* a text with backslash, colon and single quote each preceded by a backslash
RECURSIVE EscapeEach(_)
EscapeEach(text) ==
    IF text = <<>> THEN <<>>
    ELSE (IF Head(text) \in {BS, ":", "'"} THEN <<BS, Head(text)>>
          ELSE <<Head(text)>>) \o EscapeEach(Tail(text))

\* an escaped value as the filter language reads it
RECURSIVE Unescape(_)
Unescape(value) ==
    IF value = <<>> THEN <<>>
    ELSE IF Head(value) = BS /\ Len(value) >= 2
        THEN <<value[2]>> \o Unescape(Tail(Tail(value)))
    ELSE <<Head(value)>> \o Unescape(Tail(value))

\* the builder was applied to the submitted job and returned a filter
Built == built.filter_complex # <<>>

\* C16: for every non-empty watermark text, the text option of the built
\* drawtext filter is the text with backslash, colon and single quote each
\* preceded by one backslash; read back by the filter language it is the
\* text again, and no colon of the text ends the option (the filter has its
\* five options and no more); "Hi: there" gives Hi\: there.
C16_TextEscaped ==
    /\ escape_text(ExampleText) = <<"H", "i", BS, ":", " ", "t", "h", "e", "r", "e">>
    /\ \A j \in JobIds :
          (Built /\ jobs[j].watermark.type = TEXT) =>
              LET text == jobs[j].watermark.text
                  filter == built.filter_complex[1]
              IN /\ Head(filter) = "drawtext="
                 /\ Field(filter, "text=") = EscapeEach(text)
                 /\ Unescape(Field(filter, "text=")) = text
                 /\ Len(OptionsOf(Tail(filter))) = 5

\* C16 witness: the filter was built for the text \:' and its text option
\* is \\\:\'
C16_Witness ==
    /\ Built
    /\ Len(jobs) = 1
    /\ jobs[1].watermark.text = <<BS, ":", "'">>
    /\ Field(built.filter_complex[1], "text=") = <<BS, BS, BS, ":", BS, "'">>

\* the table of the x and y expressions, for the offsets (ox, oy)
TableX(position, ox) ==
    CASE position \in {"top-left", "bottom-left"} -> Decimal(ox)
      [] position \in {"top-right", "bottom-right"} -> <<"W-w-">> \o Decimal(ox)
      [] position = "center" -> <<"(W-w)/2">>

TableY(position, oy) ==
    CASE position \in {"top-left", "top-right"} -> Decimal(oy)
      [] position \in {"bottom-left", "bottom-right"} -> <<"H-h-">> \o Decimal(oy)
      [] position = "center" -> <<"(H-h)/2">>

\* the x and y expressions placed in a filter: the options x and y of
\* drawtext, the two arguments of overlay
PlacedX(type, filter) ==
    IF type = TEXT THEN Field(filter, "x=")
    ELSE After(OptionsOf(filter)[1], "[0][wm]overlay=")

PlacedY(type, filter) ==
    IF type = TEXT THEN Field(filter, "y=")
    ELSE OptionsOf(filter)[2]

\* the range of the offsets (schemas.py, offset_x and offset_y)
OffsetRange == 0..4096

\* C17: for each of the five anchor positions the x and y expressions are
\* those of the table: for every offset in 0..4096 the templates resolve to
\* them, and the expressions placed in the built filter, drawtext or
\* overlay, are the table's for the job's position and offsets.
C17_PositionTable ==
    /\ jobs = <<>> =>
          \A position \in Positions, o \in OffsetRange :
              /\ Format(POSITION_MAP[position][1], "{x_offset}", o)
                     = TableX(position, o)
              /\ Format(POSITION_MAP[position][2], "{y_offset}", o)
                     = TableY(position, o)
    /\ \A j \in JobIds :
          Built =>
              LET watermark == jobs[j].watermark
                  filter == built.filter_complex[1]
              IN /\ PlacedX(watermark.type, filter)
                     = TableX(watermark.position, watermark.offset_x)
                 /\ PlacedY(watermark.type, filter)
                     = TableY(watermark.position, watermark.offset_y)

\* C17 witness: the overlay filter was built for an image watermark at the
\* bottom right with offsets (4096, 0)
C17_Witness ==
    /\ Built
    /\ Len(jobs) = 1
    /\ jobs[1].watermark.type = IMAGE
    /\ jobs[1].watermark.position = "bottom-right"
    /\ built.extra_inputs = <<"-i", "logo.png">>
    /\ PlacedX(IMAGE, built.filter_complex[1]) = <<"W-w-", "4", "0", "9", "6">>
    /\ PlacedY(IMAGE, built.filter_complex[1]) = <<"H-h-", "0">>

\* the inputs of job j for which a command was built and logged, in order
Commands(j) == Entries(jobs[j].log, "Command")

\* C18: within a job the inputs are run in submission order, each at most
\* once: the commands built and the transcoder runs started are for inputs
\* 1, 2, 3, ... without a repeat; the command for input i+1 is built, and
\* its run started, only when the runs of inputs 1..i have exited with 0;
\* and no run is started for a job that has failed.
C18_InputsInOrder ==
    [][\A j \in JobIds :
          /\ \A c \in 1..Len(popen_calls'[j]) : popen_calls'[j][c] = c
          /\ \A c \in 1..Len(Commands(j)') : Commands(j)'[c].input = c
          /\ Len(popen_calls'[j]) <= Len(Commands(j)')
          /\ Len(Commands(j)') <= Len(jobs[j].input_files)
          /\ Len(Commands(j)') > Len(Commands(j))
                 => Succeeded(j) = Len(Commands(j))
          /\ Len(popen_calls'[j]) > Len(popen_calls[j])
                 => /\ Succeeded(j) = Len(popen_calls[j])
                    /\ jobs[j].status = RUNNING
          /\ jobs[j].status = FAILED
                 => /\ popen_calls'[j] = popen_calls[j]
                    /\ Commands(j)' = Commands(j)]_vars

\* C18 witness: the second input of a job is being executed, after the
\* run of the first has exited with 0
C18_Witness ==
    \E j \in JobIds :
        /\ Len(jobs[j].input_files) = 2
        /\ popen_calls[j] = <<1>>
        /\ Len(Commands(j)) = 2
        /\ Succeeded(j) = 1
        /\ HoldersAt(j, "execute") = 1
        /\ now = 1

\* C19: a queued job that is flipped to cancelled before a worker takes it
\* off the queue is skipped.  The worker that takes it gets no further than
\* the guard of _run_job and is back at the top of its loop with its next
\* step; the job stays cancelled with started_at and finished_at unset and
\* progress 0, no field of it changes, and no command is built or run.
C19_CancelledSkipped ==
    [][\A j \in JobIds :
          jobs[j].status = CANCELLED =>
              /\ jobs'[j] = jobs[j]
              /\ jobs[j].started_at = None
              /\ jobs[j].finished_at = None
              /\ FracEq(jobs[j].progress, Fraction(0, 1))
              /\ Commands(j) = <<>>
              /\ popen_calls[j] = <<>> /\ popen_calls'[j] = <<>>
              /\ dequeues'[j] <= 1
              /\ Holders(j) = HoldersAt(j, "run_job")
              /\ Holders(j)' = HoldersAt(j, "run_job")'
              /\ \A t \in Threads :
                     (t.job = j /\ RunJobBegin(t))
                         => /\ Holders(j)' = 0
                            /\ IdleWorkers' = IdleWorkers + 1]_vars

\* C19 witness: of two jobs the first was cancelled while queued; a worker
\* took it, skipped it, and the second job was run to completion
C19_Witness ==
    /\ Len(jobs) = 2
    /\ StatusOf(1) = CANCELLED
    /\ Returned(1)
    /\ jobs[1].started_at = None /\ jobs[1].finished_at = None
    /\ popen_calls[1] = <<>>
    /\ StatusOf(2) = COMPLETED /\ Returned(2)

\* C20: a query never observes an intermediate state of a transition: no
\* job that list_jobs returned showed, when the call returned, status
\* running with started_at unset, nor status completed or failed with
\* finished_at unset.
C20_NoIntermediateState ==
    \A i \in DOMAIN listed.values :
        LET seen == listed.values[i]
        IN /\ seen.status = RUNNING => seen.started_at # None
           /\ seen.status \in {COMPLETED, FAILED} => seen.finished_at # None

\* the sentinels in a queue
RECURSIVE StopsIn(_)
StopsIn(q) ==
    IF q = <<>> THEN 0
    ELSE (IF Head(q) = STOP THEN 1 ELSE 0) + StopsIn(Tail(q))

\* job j is in the registry and a worker is running it
IsRunning(j) == IF j \in JobIds THEN StatusOf(j) = RUNNING ELSE FALSE

\* once the event is set every worker leaves its loop, and a job that is
\* running then is completed or failed in the end
ShutdownEnds ==
    /\ stop_event ~> (LiveWorkers = 0)
    /\ \A j \in 1..MaxStopJobs : (stop_event /\ IsRunning(j)) ~> HasEnded(j)

\* C21: a shutdown posts one sentinel per active worker (as many sentinels
\* as there are live workers when it starts); afterwards every worker leaves
\* its loop, and a job that is running when the shutdown starts still ends
\* completed or failed.
C21_Shutdown ==
    /\ [][(stop_event' /\ ~stop_event)
              => StopsIn(queue') - StopsIn(queue) = LiveWorkers]_vars
    /\ ShutdownEnds

\* sequence p is the beginning of sequence q
IsPrefix(p, q) == Len(p) <= Len(q) /\ SubSeq(q, 1, Len(p)) = p

\* the queue gives out its head and takes new elements at its tail, so no
\* element passes one that was put before it
QueueStep ==
    \/ queue # <<>> /\ queue' = Tail(queue)
    \/ IsPrefix(queue, queue')

\* the pool has had one worker from the start
SingleWorker == max_parallel_jobs = 1 /\ patch.n = 0

\* job j has ended and its worker has returned from _run_job
Finished(j) == Returned(j) /\ StatusOf(j) \in {COMPLETED, FAILED}

\* C22: the queue is first-in-first-out: a job submitted before another is
\* dequeued before it; with a single worker a job is dequeued only when
\* every job submitted before it has started and finished; and nothing on
\* the queue, a sentinel included, passes what was put before it.
C22_Fifo ==
    /\ [][QueueStep]_vars
    /\ [](\A a, b \in JobIds : (a < b /\ dequeues[b] >= 1) => dequeues[a] >= 1)
    /\ [](SingleWorker =>
             \A a, b \in JobIds : (a < b /\ dequeues[b] >= 1) => Finished(a))

\* C22 witness: a single worker has finished the first job and runs the
\* second, which was submitted while the first was still on the queue
C22_Witness ==
    /\ SingleWorker
    /\ Len(jobs) = 2
    /\ Finished(1)
    /\ StatusOf(2) = RUNNING /\ Holders(2) = 1

\* C23: every dynamic string of the filter expression is escaped: the font
\* file path and the color of a text watermark appear in the built filter
\* with backslash, colon and single quote each preceded by a backslash, read
\* back as themselves, and add no option to the six of the filter.
C23_StyleEscaped ==
    \A j \in JobIds :
        (Built /\ jobs[j].watermark.font_path # <<>>) =>
            LET watermark == jobs[j].watermark
                filter == built.filter_complex[1]
            IN /\ Field(filter, "fontfile=") = EscapeEach(watermark.font_path)
               /\ Unescape(Field(filter, "fontfile=")) = watermark.font_path
               /\ Field(filter, "fontcolor=") = EscapeEach(watermark.color)
               /\ Unescape(Field(filter, "fontcolor=")) = watermark.color
               /\ Len(OptionsOf(Tail(filter))) = 6

\* the device a job is stored with when device d is asked for
StoredDevice(d) ==
    IF d \in Devices /\ (d = "cpu" \/ settings.allow_gpu) THEN d ELSE "cpu"

\* the job the step has added to the registry
Created == jobs'[Len(jobs')]

\* C24: every job of the registry has a target device in {cpu, intel,
\* nvidia} and keeps it; a job is stored with a non-cpu device only if GPUs
\* were allowed when it was created: a submission for an unknown device, or
\* for a non-cpu device while the flag is false, is stored with cpu, any
\* other with the device asked for; and the command of a cpu job encodes
\* with libx264.
C24_DeviceResolved ==
    /\ [](\A j \in JobIds : jobs[j].target_device \in Devices)
    /\ [][/\ \A j \in JobIds : jobs'[j].target_device = jobs[j].target_device
          /\ Len(jobs') > Len(jobs) =>
                 (Created.target_device # "cpu" => settings.allow_gpu)
          /\ \A d \in RequestedDevices, metadata \in Presets :
                 (SubmitDevice(d, metadata) \/ CallCreate(d, metadata)) =>
                     Created.target_device = StoredDevice(d)
          /\ \A j \in JobIds :
                 BuildCommand(j) =>
                     (jobs[j].target_device = "cpu"
                          <=> built'.encoder[2] = "libx264")]_vars

\* C24 witness: a job created while GPUs were allowed is stored for nvidia;
\* the flag is false again, a later job is stored for cpu and its command,
\* with the preset asked for, encodes with libx264
C24_Witness ==
    /\ Len(jobs) = 2
    /\ jobs[1].target_device = "nvidia"
    /\ ~settings.allow_gpu
    /\ jobs[2].target_device = "cpu"
    /\ "encoder" \in DOMAIN built
    /\ built.encoder = <<"-c:v", "libx264", "-preset", "fast">>

\* id j is on the work queue
InQueue(j) == \E i \in DOMAIN queue : queue[i] = j

\* the call of create_job for job j has returned
Submitted(j) == j \in JobIds /\ (creating.pc = "none" \/ creating.id # j)

\* C25: when a job's id is on the work queue, or was taken from it, the job
\* is in the registry with its creation entry first in its log, and with
\* status queued while its id is on the queue; so a worker that takes an id
\* from the queue finds the job, and a submitted job is on the queue or was
\* handed to a worker, never dropped as missing.
C25_StoredBeforeQueued ==
    /\ [](\A j \in 1..MaxCreateJobs :
            InQueue(j) =>
                /\ j \in JobIds
                /\ jobs[j].status = QUEUED
                /\ jobs[j].log # <<>>
                /\ jobs[j].log[1].msg = "Job created and queued")
    /\ [](\A j \in JobIds :
            /\ dequeues[j] >= 1 => jobs[j].log[1].msg = "Job created and queued"
            /\ Submitted(j) => InQueue(j) \/ dequeues[j] = 1)
    /\ [][(queue # <<>> /\ queue' = Tail(queue))
              => (Head(queue) \in JobIds /\ dequeues'[Head(queue)] = 1)]_vars

\* C25 witness: a worker runs the first job, taken from the queue while the
\* second submission has stored its job and not yet put its id
C25_Witness ==
    /\ Len(jobs) = 2
    /\ StatusOf(1) = RUNNING /\ Holders(1) = 1
    /\ creating.pc \in {"log", "put"} /\ creating.id = 2
    /\ ~InQueue(2)

============================================================================
